---------------------------- MODULE Spec2Model ----------------------------
(***************************************************************************)
(* Token-budget image optimizer of the vision tool server                  *)
(* (utils/image_optimizer.py): the token estimator, the target-dimension   *)
(* calculator, the resize executor and the retry controller.               *)
(*                                                                         *)
(* Specifications:                                                         *)
(*   Spec      one call of resize_with_retry on one source image, one      *)
(*             step per loop iteration;                                    *)
(*   SpecCalc  calculate_target_dimensions applied to inputs drawn from    *)
(*             bounded sets, then applied again to its own output;         *)
(*   SpecEst   estimate_image_tokens applied to two drawn sizes;           *)
(*   SpecExec  concurrent calls of resize_image_for_tokens on one source   *)
(*             image, one step per file-system operation;                  *)
(*   SpecSave  one call of save_image (server.py): the upload is stored,   *)
(*             get_image_info is asked, resize_with_retry runs.            *)
(***************************************************************************)
EXTENDS Integers, Sequences, FiniteSets, TLC

VARIABLES
    image,          \* the source file: [w, h, decodable]
    max_attempts,   \* argument of resize_with_retry
    attempt,        \* loop variable of resize_with_retry (0-based)
    pc,             \* "loop" | "done" in Spec, "idle" in SpecCalc
    all_metadata,   \* the retry history built by resize_with_retry
    outcome,        \* "none" | "returned" | "raised"
    result,         \* what the call returned or raised
    files,          \* files written so far: set of [path, content]
    next_tmp,       \* next name the temporary-name generator hands out
    calls,          \* the executor invocations so far, in order:
                    \* [target, kind, error, resized, tokens]
    resized_path,   \* local of resize_with_retry, None while unbound
    calc,           \* SpecCalc: [stage, w, h, target, first, second]
    est,            \* SpecEst: [stage, w1, h1, w2, h2, t1, t2]
    procs,          \* SpecExec: the concurrent calls of the executor
    save,           \* SpecSave: the call of save_image
    ocr,            \* tools/ocr.py: [_reader], the languages the reader was
                    \* built for, NoReader while it is None
    coral,          \* tools/object_detection.py and tools/classification.py:
                    \* per module [_interpreter, _labels, made]
    faces,          \* tools/face_detection.py: [_ie, _compiled_model,
                    \* _input_layer, _output_layer]
    reply           \* what the last call of a tool returned or raised

\* the state of the specifications a step does not belong to
tools == <<ocr, coral, faces, reply>>

others == <<est, procs, save, tools>>

vars == <<image, max_attempts, attempt, pc, all_metadata, outcome, result,
          files, next_tmp, calls, resized_path, calc, others>>

---------------------------------------------------------------------------
(* Program constants                                                       *)

TOKENS_PER_TILE_512 == 400
MAX_TOKENS_TARGET == 3500
MIN_IMAGE_SIZE == 224

\* token_targets of resize_with_retry
token_targets == <<3500, 2800, 2000>>

\* image_path handed to resize_with_retry; generated names are 1, 2, ...
SourcePath == 0

---------------------------------------------------------------------------
(* Bounds of the model                                                     *)

MaxAttempts == 4

\* Pixel sizes of the source images of Spec.
Sizes == {100, 250, 512, 600, 1024, 1080, 1920, 2048, 3000, 4096}

\* Number of concurrent executor calls in SpecExec.
NumCalls == 2

\* Pixel sizes of the source image of SpecExec: 400, 3840 or 30720 tokens.
ExecSizes == {512, 4096}

\* max_tokens of the executor calls of SpecExec.
ExecTargets == {3500, 5000}

\* Arguments of estimate_image_tokens in SpecEst: the tile edges and the
\* sizes the tests name.
EstSizes == {1, 511, 512, 513, 1024, 1025, 1080, 1920, 2048, 2049, 4096}

\* Arguments of calculate_target_dimensions in SpecCalc: also sizes no
\* decoded image has.
CalcSizes == Sizes \cup {-1024, -600, 0, 16, 223}

CalcTargets == {-100, 0, 100, 400, 2000, 2800, 3500}

---------------------------------------------------------------------------
(* Integer arithmetic standing for the float arithmetic of the source      *)

Abs(x) == IF x < 0 THEN -x ELSE x

Max(a, b) == IF a >= b THEN a ELSE b

Min(a, b) == IF a <= b THEN a ELSE b

\* math.ceil(a / b) for b > 0
CeilDiv(a, b) == -((-a) \div b)

\* int(x): truncation toward zero of the quotient a / b, b # 0
TruncDiv(a, b) ==
    LET q == Abs(a) \div Abs(b)
    IN  IF (a < 0) = (b < 0) THEN q ELSE -q

\* a * b as <<high, low>> digits in base 2^15 (a < 2^25, b < 2^15), so that
\* the products below stay inside TLC's 32-bit integers
Wide(a, b) ==
    LET a1 == a \div 32768
        a0 == a % 32768
    IN  <<a1 * b + (a0 * b) \div 32768, (a0 * b) % 32768>>

\* a * b <= c * d
LeqProd(a, b, c, d) ==
    LET l == Wide(a, b)
        r == Wide(c, d)
    IN  l[1] < r[1] \/ (l[1] = r[1] /\ l[2] <= r[2])

\* largest n in lo..hi with n*n*c <= x*x*t (lo satisfies it), by
\* bisection; the midpoint is bound as the one element of a set, which
\* makes TLC compute it once per level
RECURSIVE RootSearch(_, _, _, _, _)
RootSearch(lo, hi, x, t, c) ==
    IF lo >= hi THEN lo
    ELSE CHOOSE n \in {IF LeqProd(mid * mid, c, x * x, t)
                       THEN RootSearch(mid, hi, x, t, c)
                       ELSE RootSearch(lo, mid - 1, x, t, c) :
                       mid \in {(lo + hi + 1) \div 2}} : TRUE

\* int(x * math.sqrt(t / c)) for 0 <= t < c: the integer part of
\* |x| * sqrt(t/c), with the sign of x (int() truncates toward zero)
ScaleDim(x, t, c) ==
    LET n == RootSearch(0, Abs(x), Abs(x), t, c)
    IN  IF x < 0 THEN -n ELSE n

---------------------------------------------------------------------------
(* estimate_image_tokens                                                   *)

\* estimate_image_tokens with the overhead starting at 4 tiles (>= for >)
estimate_image_tokens_OverheadFromFour(width, height) ==
    LET total_tiles == CeilDiv(width, 512) * CeilDiv(height, 512)
        estimated_tokens == total_tiles * TOKENS_PER_TILE_512
    IN  IF total_tiles >= 4
        THEN (estimated_tokens * 12) \div 10
        ELSE estimated_tokens

\* estimate_image_tokens whose overhead branch forgets the tile count
estimate_image_tokens_FlatOverhead(width, height) ==
    LET total_tiles == CeilDiv(width, 512) * CeilDiv(height, 512)
    IN  IF total_tiles > 4
        THEN (TOKENS_PER_TILE_512 * 12) \div 10
        ELSE total_tiles * TOKENS_PER_TILE_512


estimate_image_tokens(width, height) ==
    LET tiles_x == CeilDiv(width, 512)
        tiles_y == CeilDiv(height, 512)
        total_tiles == tiles_x * tiles_y
        estimated_tokens == total_tiles * TOKENS_PER_TILE_512
    IN  IF total_tiles > 4
        THEN (estimated_tokens * 12) \div 10
        ELSE estimated_tokens

---------------------------------------------------------------------------
(* calculate_target_dimensions                                             *)

\* ScaledSize with the two axes exchanged (image.shape is height first)
ScaledSize_Swapped(current_width, current_height, target_tokens) ==
    LET current_tokens == estimate_image_tokens(current_width, current_height)
    IN  <<ScaleDim(current_height, target_tokens, current_tokens),
          ScaleDim(current_width, target_tokens, current_tokens)>>

\* lines 78-79: the scaled dimensions before the minimum-size check
ScaledSize(current_width, current_height, target_tokens) ==
    LET current_tokens == estimate_image_tokens(current_width, current_height)
    IN  <<ScaleDim(current_width, target_tokens, current_tokens),
          ScaleDim(current_height, target_tokens, current_tokens)>>

\* FloorBranch that is never entered
FloorBranch_Never(current_width, current_height, target_tokens) == FALSE

\* line 82: the minimum-size branch is entered
FloorBranch(current_width, current_height, target_tokens) ==
    LET s == ScaledSize(current_width, current_height, target_tokens)
    IN  s[1] < MIN_IMAGE_SIZE \/ s[2] < MIN_IMAGE_SIZE

\* line 85: current_width / current_height > 1 (current_height # 0)
AspectAboveOne(current_width, current_height) ==
    IF current_height > 0
    THEN current_width > current_height
    ELSE current_width < current_height

\* lines 84-90: both dimensions recomputed from the aspect ratio
FloorSize(current_width, current_height) ==
    IF AspectAboveOne(current_width, current_height)
    THEN <<MIN_IMAGE_SIZE,
           TruncDiv(MIN_IMAGE_SIZE * current_height, current_width)>>
    ELSE <<TruncDiv(MIN_IMAGE_SIZE * current_width, current_height),
           MIN_IMAGE_SIZE>>

\* RoundDown16 with the quantization left out
RoundDown16_Identity(x) == x

\* lines 93-94: (x // 16) * 16, Python's floor division
RoundDown16(x) == (x \div 16) * 16

\* QuantizeAndClamp without the final clamp of line 96
QuantizeAndClamp_NoClamp(size) ==
    <<RoundDown16(size[1]), RoundDown16(size[2])>>

\* QuantizeAndClamp whose minimum side spans two tiles
QuantizeAndClamp_TwoTiles(size) ==
    <<Max(RoundDown16(size[1]), 1024), Max(RoundDown16(size[2]), 1024)>>

\* lines 92-96
QuantizeAndClamp(size) ==
    <<Max(RoundDown16(size[1]), MIN_IMAGE_SIZE),
      Max(RoundDown16(size[2]), MIN_IMAGE_SIZE)>>

\* calculate_target_dimensions without the fast path of lines 70-71: the
\* result is quantized and clamped whatever the estimate
calculate_target_dimensions_NoFastPath(current_width, current_height, target_tokens) ==
    [kind |-> "ok",
     size |-> QuantizeAndClamp(<<current_width, current_height>>)]

\* The call's outcome: [kind |-> "ok", size |-> <<w, h>>] or
\* [kind |-> "raise", error |-> e].
calculate_target_dimensions(current_width, current_height, target_tokens) ==
    LET current_tokens == estimate_image_tokens(current_width, current_height)
    IN  IF current_tokens <= target_tokens
        THEN [kind |-> "ok", size |-> <<current_width, current_height>>]
        ELSE IF current_tokens = 0
        THEN [kind |-> "raise", error |-> "ZeroDivisionError"]
        ELSE IF target_tokens < 0  \* math.sqrt of a negative ratio
        THEN [kind |-> "raise", error |-> "ValueError"]
        ELSE [kind |-> "ok",
              size |-> QuantizeAndClamp(
                  IF FloorBranch(current_width, current_height, target_tokens)
                  THEN FloorSize(current_width, current_height)
                  ELSE ScaledSize(current_width, current_height,
                                  target_tokens))]

---------------------------------------------------------------------------
(* resize_image_for_tokens                                                 *)

\* output_path = None
None == -1

\* Write w replaces what the file of the same path held.
WriteFiles(fs, ws) ==
    {f \in fs : \A w \in ws : w.path # f.path} \cup ws

\* What can go wrong while the resized image is stored (lines 141-151):
\*   "tempfile"  NamedTemporaryFile raises, no file is created
\*   "imwrite"   cv2.imwrite raises after the temporary file was created
\*   "silent"    cv2.imwrite returns False, which the code does not look at
Faults == {"none", "tempfile", "imwrite", "silent"}

\* lines 120-124
BaseMetadata(img) ==
    [original_size |-> <<img.w, img.h>>,
     original_tokens_estimated |-> estimate_image_tokens(img.w, img.h),
     resized |-> FALSE]

\* line 160: f"{(original - new) / original * 100:.1f}%", in tenths of a
\* percent; the format rounds to the nearest tenth, a tie to the even one
TokenReduction(original_tokens, new_tokens) ==
    LET num == Abs(original_tokens - new_tokens) * 1000
        q == num \div original_tokens
        twice == 2 * (num % original_tokens)
        r == IF twice > original_tokens \/ (twice = original_tokens /\ q % 2 = 1)
             THEN q + 1 ELSE q
    IN  IF new_tokens > original_tokens THEN -r ELSE r

\* lines 155-162
ResizedMetadata(img, size, dest) ==
    [resized |-> TRUE,
     new_size |-> size,
     new_tokens_estimated |-> estimate_image_tokens(size[1], size[2]),
     scale_factor |-> <<size[1], img.w>>,   \* new_width / original_width
     token_reduction |->
         TokenReduction(estimate_image_tokens(img.w, img.h),
                        estimate_image_tokens(size[1], size[2])),
     output_path |-> dest]
    @@ BaseMetadata(img)

\* Undecodable with the test for None left out
Undecodable_Never(img) == FALSE

\* lines 113-114: cv2.imread gave None
Undecodable(img) == ~img.decodable

\* WithinBudget that holds for every image: nothing is ever resized
WithinBudget_Always(original_tokens, max_tokens) == TRUE

\* WithinBudget with the test left out: every image is resized
WithinBudget_Never(original_tokens, max_tokens) == FALSE

\* line 127
WithinBudget(original_tokens, max_tokens) == original_tokens <= max_tokens

\* FreshName that hands out the same name every time
FreshName_Reused(counter) == 1

\* lines 144-148: the name tempfile.NamedTemporaryFile picks, one that no
\* earlier call was given
FreshName(counter) == counter

\* Destination that stores the result in place, over the source image
Destination_InPlace(output_path, tmp_name) ==
    IF output_path = None THEN SourcePath ELSE output_path

\* lines 141-148: the path cv2.imwrite is given
Destination(output_path, tmp_name) ==
    IF output_path = None THEN tmp_name ELSE output_path

\* The call's outcome: [kind |-> "return", path, metadata, writes, names] or
\* [kind |-> "raise", error, writes, names]; writes are the files the call
\* created or wrote, names the number of temporary names it drew.
resize_image_for_tokens(img, image_path, max_tokens, output_path, fault, tmp_name) ==
    IF Undecodable(img)
    THEN [kind |-> "raise", error |-> "ValueError", writes |-> {},
          names |-> 0]
    ELSE IF WithinBudget(estimate_image_tokens(img.w, img.h), max_tokens)
    THEN [kind |-> "return", path |-> image_path,
          metadata |-> [message |-> "no resize needed"] @@ BaseMetadata(img),
          writes |-> {}, names |-> 0]
    ELSE
    LET fresh == output_path = None
        dest == Destination(output_path, tmp_name)
        created == IF fresh THEN {[path |-> tmp_name, content |-> <<>>]}
                   ELSE {}
        \* the outcome for the dimensions of lines 131-134
        Outcome(target) ==
            IF target.kind = "raise"
            THEN [kind |-> "raise", error |-> target.error, writes |-> {},
                  names |-> 0]
            ELSE IF fresh /\ fault = "tempfile"
            THEN [kind |-> "raise", error |-> "OSError", writes |-> {},
                  names |-> 0]
            ELSE IF fault = "imwrite"
            THEN [kind |-> "raise", error |-> "cv2.error",
                  writes |-> created, names |-> IF fresh THEN 1 ELSE 0]
            ELSE [kind |-> "return", path |-> dest,
                  metadata |-> ResizedMetadata(img, target.size, dest),
                  writes |-> IF fault = "silent" THEN created
                             ELSE WriteFiles(created,
                                             {[path |-> dest,
                                               content |-> target.size]}),
                  names |-> IF fresh THEN 1 ELSE 0]
    IN  CHOOSE r \in {Outcome(target) : target \in {calculate_target_dimensions(img.w, img.h, max_tokens)}} : TRUE

---------------------------------------------------------------------------
(* resize_with_retry                                                       *)

\* TargetOf that walks the ladder from its smallest target upwards
TargetOf_Reversed(k) ==
    token_targets[Len(token_targets) - Min(k, Len(token_targets) - 1)]

\* TargetOf that wraps around the ladder instead of clamping to its end
TargetOf_Wrapping(k) == token_targets[(k % Len(token_targets)) + 1]

\* line 193
TargetOf(k) == token_targets[Min(k, Len(token_targets) - 1) + 1]

\* Succeeded that looks at the original estimate alone
Succeeded_BudgetOnly(metadata, target) ==
    metadata.original_tokens_estimated <= target

\* line 204
Succeeded(metadata, target) ==
    metadata.resized \/ metadata.original_tokens_estimated <= target

\* lines 206-223: the history entry of a successful attempt
MetadataCopy(metadata) ==
    LET base == [attempt |-> metadata.attempt,
                 target_tokens |-> metadata.target_tokens,
                 original_size |-> metadata.original_size,
                 original_tokens_estimated |->
                     metadata.original_tokens_estimated,
                 resized |-> metadata.resized,
                 message |-> IF "message" \in DOMAIN metadata
                             THEN metadata.message ELSE "None"]
    IN  IF metadata.resized
        THEN [new_size |-> metadata.new_size,
              new_tokens_estimated |-> metadata.new_tokens_estimated,
              scale_factor |-> metadata.scale_factor,
              token_reduction |-> metadata.token_reduction,
              output_path |-> metadata.output_path] @@ base
        ELSE base

\* ErrorRecord that numbers the attempts from 0, like the loop variable
ErrorRecord_ZeroBased(k, target, error) ==
    [attempt |-> k, target_tokens |-> target, error |-> error]

\* lines 233-237
ErrorRecord(k, target, error) ==
    [attempt |-> k + 1, target_tokens |-> target, error |-> error]

\* IsLastAttempt that gives up at the first error
IsLastAttempt_Always(k, limit) == TRUE

\* IsLastAttempt with the limit off by one
IsLastAttempt_OffByOne(k, limit) == k = limit

\* IsLastAttempt that never re-raises
IsLastAttempt_Never(k, limit) == FALSE

\* line 240
IsLastAttempt(k, limit) == k = limit - 1

\* What one invocation of the executor was asked and what it answered.
CallRecord(target, r) ==
    [target |-> target,
     kind |-> r.kind,
     error |-> IF r.kind = "raise" THEN r.error ELSE "",
     resized |-> IF r.kind = "return" THEN r.metadata.resized ELSE FALSE,
     tokens |-> IF r.kind = "return"
                THEN r.metadata.original_tokens_estimated ELSE 0]

\* One iteration of the loop at lines 192-241. The target, the executor's
\* answer and the metadata are bound as elements of one-element sets, so
\* that each is computed once.
Attempt(fault) ==
    /\ pc = "loop"
    /\ attempt < max_attempts
    /\ \E target \in {TargetOf(attempt)} :
       \E r \in {resize_image_for_tokens(image, SourcePath, target, None, fault, FreshName(next_tmp))} :
           /\ calls' = Append(calls, CallRecord(target, r))
           /\ files' = WriteFiles(files, r.writes)
           /\ next_tmp' = next_tmp + r.names
           /\ IF r.kind = "return"
              THEN \E metadata \in {[attempt |-> attempt + 1, target_tokens |-> target] @@ r.metadata} :
                   /\ resized_path' = r.path
                   /\ IF Succeeded(metadata, target)
                      THEN LET history ==
                                   Append(all_metadata, MetadataCopy(metadata))
                           IN  /\ all_metadata' = history
                               /\ outcome' = "returned"
                               /\ result' =
                                      [path |-> r.path,
                                       metadata |->
                                           [retry_history |-> history]
                                           @@ metadata]
                               /\ pc' = "done"
                               /\ attempt' = attempt
                      ELSE /\ attempt' = attempt + 1
                           /\ UNCHANGED <<all_metadata, outcome, result, pc>>
              ELSE /\ all_metadata' =
                          Append(all_metadata,
                                 ErrorRecord(attempt, target, r.error))
                   /\ resized_path' = resized_path
                   /\ IF IsLastAttempt(attempt, max_attempts)
                      THEN /\ outcome' = "raised"
                           /\ result' = [error |-> r.error]
                           /\ pc' = "done"
                           /\ attempt' = attempt
                      ELSE /\ attempt' = attempt + 1
                           /\ UNCHANGED <<outcome, result, pc>>
    /\ UNCHANGED <<image, max_attempts, calc, others>>

\* Line 244, reached when the loop ends without a return or a raise.
FallThrough ==
    /\ pc = "loop"
    /\ attempt >= max_attempts
    /\ IF resized_path = None
       THEN /\ outcome' = "raised"
            /\ result' = [error |-> "UnboundLocalError"]
       ELSE /\ outcome' = "returned"
            /\ result' = [path |-> resized_path,
                          metadata |-> [retry_history |-> all_metadata]]
    /\ pc' = "done"
    /\ UNCHANGED <<image, max_attempts, attempt, all_metadata, files,
                   next_tmp, calls, resized_path, calc, others>>

CalcIdle == [stage |-> "idle"]

EstIdle == [stage |-> "idle"]

ProcsIdle == <<>>

SaveIdle == [pc |-> "idle"]

\* _reader = None; no reader is built for an empty list of languages
NoReader == <<>>

\* tools/ocr.py line 11
OcrUnloaded == [_reader |-> NoReader]

\* tools/object_detection.py lines 17-18, tools/classification.py lines
\* 17-18
CoralModules == {"object_detection", "classification"}

CoralUnloaded ==
    [m \in CoralModules |->
        [_interpreter |-> "None", _labels |-> "None", made |-> 0]]

\* tools/face_detection.py lines 12-15
FacesUnloaded ==
    [_ie |-> "None", _compiled_model |-> "None", _input_layer |-> "None",
     _output_layer |-> "None"]

NoReply == [op |-> "none"]

\* the tool modules as they are when the process starts
ToolsIdle ==
    /\ ocr = OcrUnloaded
    /\ coral = CoralUnloaded
    /\ faces = FacesUnloaded
    /\ reply = NoReply

\* the other specifications stand still
OthersIdle ==
    /\ est = EstIdle
    /\ procs = ProcsIdle
    /\ save = SaveIdle
    /\ ToolsIdle

Init ==
    /\ image \in [w : Sizes, h : Sizes, decodable : BOOLEAN]
    /\ max_attempts \in -1..MaxAttempts
    /\ attempt = 0
    /\ pc = "loop"
    /\ all_metadata = <<>>
    /\ outcome = "none"
    /\ result = [kind |-> "none"]
    /\ files = {}
    /\ next_tmp = 1
    /\ calls = <<>>
    /\ resized_path = None
    /\ calc = CalcIdle
    /\ OthersIdle

Next ==
    \/ \E fault \in Faults : Attempt(fault)
    \/ FallThrough

Spec == Init /\ [][Next]_vars

---------------------------------------------------------------------------
(* SpecCalc: calculate_target_dimensions on drawn arguments                *)

CalcCall ==
    /\ calc.stage = "args"
    /\ calc' = [calc EXCEPT
                   !.stage = "called",
                   !.first = calculate_target_dimensions(calc.w, calc.h,
                                                         calc.target)]
    /\ UNCHANGED <<image, max_attempts, attempt, pc, all_metadata, outcome,
                   result, files, next_tmp, calls, resized_path, others>>

\* the function applied to its own output, with the same target
CalcAgain ==
    /\ calc.stage = "called"
    /\ calc.first.kind = "ok"
    /\ calc' = [calc EXCEPT
                   !.stage = "again",
                   !.second = calculate_target_dimensions(
                       calc.first.size[1], calc.first.size[2], calc.target)]
    /\ UNCHANGED <<image, max_attempts, attempt, pc, all_metadata, outcome,
                   result, files, next_tmp, calls, resized_path, others>>

InitCalc ==
    /\ calc \in [stage : {"args"}, w : CalcSizes, h : CalcSizes,
                 target : CalcTargets, first : {[kind |-> "none"]},
                 second : {[kind |-> "none"]}]
    /\ image = [w |-> 512, h |-> 512, decodable |-> TRUE]
    /\ max_attempts = 0
    /\ attempt = 0
    /\ pc = "idle"
    /\ all_metadata = <<>>
    /\ outcome = "none"
    /\ result = [kind |-> "none"]
    /\ files = {}
    /\ next_tmp = 1
    /\ calls = <<>>
    /\ resized_path = None
    /\ OthersIdle

NextCalc == CalcCall \/ CalcAgain

SpecCalc == InitCalc /\ [][NextCalc]_vars

---------------------------------------------------------------------------
(* Properties of calculate_target_dimensions (SpecCalc)                    *)

CalcDone == calc.stage \in {"called", "again"}

CalcTokens == estimate_image_tokens(calc.w, calc.h)

\* scaling is triggered on arguments a decoded image can have
CalcOverBudget ==
    /\ CalcDone
    /\ calc.w > 0 /\ calc.h > 0 /\ calc.target >= 0
    /\ CalcTokens > calc.target

CalcFloor == FloorBranch(calc.w, calc.h, calc.target)

\* C2: whenever scaling is triggered (positive dimensions, target >= 0,
\* estimate above the target) both returned dimensions are at least 224
\* and multiples of 16.
C2_ScaledAtLeastMinMultipleOf16 ==
    CalcOverBudget =>
        /\ calc.first.kind = "ok"
        /\ \A i \in 1..2 : /\ calc.first.size[i] >= 224
                           /\ calc.first.size[i] % 16 = 0

\* C2 witness: an over-budget input scaled (not floored) to more than 224
C2_Witness ==
    /\ CalcOverBudget
    /\ ~CalcFloor
    /\ calc.first.size[1] > 224
    /\ calc.first.size[1] < calc.w

\* |new_w/new_h - w/h| / (w/h) < 1/den, cross-multiplied
AspectErrorBelow(den) ==
    Abs(calc.first.size[1] * calc.h - calc.w * calc.first.size[2]) * den
        < calc.w * calc.first.size[2]

\* C3 as stated: on every over-budget input for which the minimum-size
\* branch is not taken the relative aspect-ratio error is below 5%.
C3_AspectErrorBelow5Percent ==
    (CalcOverBudget /\ ~CalcFloor) => AspectErrorBelow(20)

\* C3 amended: on every over-budget input for which the minimum-size branch
\* is not taken the relative aspect-ratio error is below 1/14 (each side
\* keeps more than 224/240 of its scaled length).
C3_AspectErrorBelowOneFourteenth ==
    (CalcOverBudget /\ ~CalcFloor) => AspectErrorBelow(14)

\* C3 witness: a scaled, not floored result whose error is 5% or more
C3_Witness ==
    /\ CalcOverBudget
    /\ ~CalcFloor
    /\ ~AspectErrorBelow(20)

\* C4: on compliant input (estimate <= target) the function returns its
\* arguments exactly, and applied again to that output with the same target
\* it returns the same output.
C4_NoOpWithinBudget ==
    (CalcDone /\ CalcTokens <= calc.target) =>
        /\ calc.first = [kind |-> "ok", size |-> <<calc.w, calc.h>>]
        /\ calc.stage = "again" => calc.second = calc.first

\* C4 witness: a compliant input below 224 and off the 16-pixel grid went
\* through both applications
C4_Witness ==
    /\ calc.stage = "again"
    /\ CalcTokens <= calc.target
    /\ calc.w > 0 /\ calc.w < 224 /\ calc.w % 16 # 0
    /\ calc.h > 0
    /\ calc.second.size = <<calc.w, calc.h>>

\* C5 as stated: with current_width <= 0 or current_height <= 0 the call
\* fails; it never returns a pair of dimensions.
C5_NonPositiveRejected ==
    (CalcDone /\ (calc.w <= 0 \/ calc.h <= 0)) => calc.first.kind = "raise"

---------------------------------------------------------------------------
(* Properties of resize_with_retry (Spec)                                  *)

ImageTokens == estimate_image_tokens(image.w, image.h)

\* the i-th executor invocation met the success condition of attempt i
CallSucceeded(i) ==
    /\ calls[i].kind = "return"
    /\ calls[i].resized \/ calls[i].tokens <= calls[i].target

AnySuccess == \E i \in 1..Len(calls) : CallSucceeded(i)

\* C1 as stated: for every image estimated above 3500 tokens attempt 1
\* resizes with target 3500, and the estimate of the returned new_size is
\* at most 3500 unless the minimum-size branch was taken for the image.
C1_ResizedWithinTargetUnlessFloor ==
    (outcome = "returned" /\ Len(calls) = 1 /\ ImageTokens > 3500) =>
        /\ result.metadata.resized
        /\ result.metadata.target_tokens = 3500
        /\ \/ FloorBranch(image.w, image.h, 3500)
           \/ estimate_image_tokens(result.metadata.new_size[1],
                                    result.metadata.new_size[2]) <= 3500

\* C6 as stated: an undecodable source fails the call at once, the executor
\* being invoked only once whatever max_attempts is.
C6_DecodeErrorNotRetried ==
    (~image.decodable /\ max_attempts >= 1) => Len(calls) <= 1

\* C6 amended: an undecodable source makes every attempt fail with the
\* decode error; each failure is recorded and the next attempt is made, so
\* the executor is invoked max_attempts times (max_attempts >= 1) before
\* the decode error is raised to the caller, and no path is returned.
C6_DecodeErrorRetriedToLimit ==
    (~image.decodable /\ max_attempts >= 1) =>
        /\ \A i \in 1..Len(calls) :
               /\ calls[i].kind = "raise"
               /\ calls[i].error = "ValueError"
        /\ Len(all_metadata) = Len(calls)
        /\ outcome # "returned"
        /\ pc = "done" => /\ Len(calls) = max_attempts
                          /\ outcome = "raised"
                          /\ result.error = "ValueError"

\* C6 witness: the call on an undecodable source ended after three attempts
C6_Witness ==
    /\ ~image.decodable
    /\ pc = "done"
    /\ max_attempts = 3
    /\ Len(calls) = 3
    /\ outcome = "raised"

\* what a step that invokes the executor and sees it raise must do
RaisedStep ==
    LET k == Len(calls')
    IN  (k = Len(calls) + 1 /\ calls'[k].kind = "raise") =>
            /\ all_metadata' =
                   Append(all_metadata,
                          [attempt |-> k,
                           target_tokens |-> calls'[k].target,
                           error |-> calls'[k].error])
            /\ IF k < max_attempts
               THEN /\ pc' = "loop"
                    /\ attempt' = k
                    /\ outcome' = "none"
               ELSE /\ pc' = "done"
                    /\ outcome' = "raised"
                    /\ result' = [error |-> calls'[k].error]

\* C7: when the executor raises on attempt k an error record for attempt k
\* is appended to the history; for k < max_attempts attempt k+1 follows, and
\* for k = max_attempts that error is raised to the caller. Errors raised
\* while the output is written are among them.
C7_ErrorRecordedThenRetriedOrRaised == [][RaisedStep]_vars

\* C7 witness: two attempts failed while writing, the call raised the
\* second error
C7_Witness ==
    /\ pc = "done"
    /\ max_attempts = 2
    /\ Len(calls) = 2
    /\ calls[1].error = "OSError"
    /\ calls[2].error = "cv2.error"
    /\ outcome = "raised"
    /\ result.error = "cv2.error"
    /\ Len(all_metadata) = 2

\* C8: if the attempts are used up and none resized or found the image
\* within budget, the call raises (for max_attempts >= 1 the error of the
\* last attempt); it returns no path.
C8_ExhaustedRaisesLastError ==
    (pc = "done" /\ ~AnySuccess) =>
        /\ outcome = "raised"
        /\ "path" \notin DOMAIN result
        /\ max_attempts >= 1 =>
               /\ Len(calls) = max_attempts
               /\ Len(all_metadata) = max_attempts
               /\ result.error = all_metadata[max_attempts].error
               /\ result.error = calls[max_attempts].error

\* C8 witness: three attempts failed with different errors, the last one
\* was raised
C8_Witness ==
    /\ pc = "done"
    /\ ~AnySuccess
    /\ max_attempts = 3
    /\ calls[2].error = "cv2.error"
    /\ calls[3].error = "OSError"
    /\ result.error = "OSError"

\* C9: attempt k calls the executor with 3500, 2800, 2000 for k = 1, 2, 3
\* and with 2000 for every later k; the targets never increase.
C9_LadderTargets ==
    /\ \A k \in 1..Len(calls) :
           calls[k].target = IF k = 1 THEN 3500
                             ELSE IF k = 2 THEN 2800 ELSE 2000
    /\ \A j, k \in 1..Len(calls) :
           j <= k => calls[j].target >= calls[k].target

\* C9 witness: a fourth attempt was made
C9_Witness ==
    /\ Len(calls) = 4
    /\ calls[4].target = 2000

\* after a successful attempt the executor is not invoked again
NoCallAfterSuccess == AnySuccess => calls' = calls

\* C10: the call stops at the first successful attempt: that attempt is the
\* last invocation of the executor, the call has returned its result, and
\* no later step invokes the executor.
C10_StopsAtFirstSuccess ==
    /\ [](\A i \in 1..Len(calls) :
              CallSucceeded(i) => /\ i = Len(calls)
                                  /\ pc = "done"
                                  /\ outcome = "returned"
                                  /\ result.metadata.attempt = i)
    /\ [][NoCallAfterSuccess]_vars

\* C10 witness: a resize at the second attempt, with attempts left over
C10_Witness ==
    /\ Len(calls) = 2
    /\ CallSucceeded(2)
    /\ calls[2].resized
    /\ max_attempts = 4
    /\ pc = "done"

\* the history returned to the caller
ReturnedHistory == result.metadata.retry_history

\* C11: whenever resize_with_retry returns, retry_history is the complete
\* ordered list of attempt records: one entry per attempt made, the i-th
\* with attempt = i and the target of attempt i, error records before the
\* last entry, the successful attempt last, and no entry with a
\* retry_history of its own.
C11_HistoryCompleteAndOrdered ==
    outcome = "returned" =>
        /\ Len(ReturnedHistory) = Len(calls)
        /\ \A i \in 1..Len(ReturnedHistory) :
               /\ ReturnedHistory[i].attempt = i
               /\ ReturnedHistory[i].target_tokens = calls[i].target
               /\ "retry_history" \notin DOMAIN ReturnedHistory[i]
               /\ IF i < Len(ReturnedHistory)
                  THEN /\ "error" \in DOMAIN ReturnedHistory[i]
                       /\ ReturnedHistory[i].error = calls[i].error
                       /\ calls[i].kind = "raise"
                  ELSE /\ "error" \notin DOMAIN ReturnedHistory[i]
                       /\ ReturnedHistory[i].resized = calls[i].resized
                       /\ CallSucceeded(i)

\* C11 witness: a call returned at its third attempt after two errors
C11_Witness ==
    /\ outcome = "returned"
    /\ Len(ReturnedHistory) = 3
    /\ ReturnedHistory[1].error = "OSError"
    /\ ReturnedHistory[2].error = "cv2.error"
    /\ ReturnedHistory[3].resized

\* C12: on a decodable image estimated at 3500 tokens or less (2000 or less
\* in particular) a call that makes a first attempt (max_attempts >= 1)
\* returns at that attempt with the original path, resized = false and a
\* retry_history of length 1.
C12_WithinBudgetReturnsAtOnce ==
    (image.decodable /\ ImageTokens <= 3500 /\ max_attempts >= 1) =>
        /\ Len(calls) <= 1
        /\ pc = "done" =>
               /\ outcome = "returned"
               /\ Len(calls) = 1
               /\ result.path = SourcePath
               /\ result.metadata.resized = FALSE
               /\ result.metadata.attempt = 1
               /\ Len(ReturnedHistory) = 1

\* C12 witness: an image between the smallest and the first target was
\* returned unresized
C12_Witness ==
    /\ image.decodable
    /\ ImageTokens > 2000 /\ ImageTokens <= 3500
    /\ max_attempts = 3
    /\ outcome = "returned"
    /\ result.path = SourcePath
    /\ Len(ReturnedHistory) = 1

\* C15: with an undecodable source every executor call raises, the call of
\* resize_with_retry (max_attempts >= 1) raises to its caller, and no
\* attempt creates or writes a file or draws a temporary name.
C15_DecodeFailureLeavesNoFile ==
    ~image.decodable =>
        /\ files = {}
        /\ next_tmp = 1
        /\ \A i \in 1..Len(calls) : calls[i].kind = "raise"
        /\ (pc = "done" /\ max_attempts >= 1) =>
               /\ outcome = "raised"
               /\ "path" \notin DOMAIN result

\* C15 witness: the call on an undecodable source raised after two
\* attempts and the file system holds nothing new
C15_Witness ==
    /\ ~image.decodable
    /\ max_attempts = 2
    /\ pc = "done"
    /\ outcome = "raised"
    /\ Len(calls) = 2
    /\ files = {}

---------------------------------------------------------------------------
(* SpecEst: estimate_image_tokens on two drawn sizes                       *)

EstCall ==
    /\ est.stage = "args"
    /\ est' = [est EXCEPT
                  !.stage = "called",
                  !.t1 = estimate_image_tokens(est.w1, est.h1),
                  !.t2 = estimate_image_tokens(est.w2, est.h2)]
    /\ UNCHANGED <<image, max_attempts, attempt, pc, all_metadata, outcome,
                   result, files, next_tmp, calls, resized_path, calc,
                   procs, save, tools>>

InitEst ==
    /\ est \in [stage : {"args"}, w1 : EstSizes, h1 : EstSizes,
                w2 : EstSizes, h2 : EstSizes, t1 : {0}, t2 : {0}]
    /\ image = [w |-> 512, h |-> 512, decodable |-> TRUE]
    /\ max_attempts = 0
    /\ attempt = 0
    /\ pc = "idle"
    /\ all_metadata = <<>>
    /\ outcome = "none"
    /\ result = [kind |-> "none"]
    /\ files = {}
    /\ next_tmp = 1
    /\ calls = <<>>
    /\ resized_path = None
    /\ calc = CalcIdle
    /\ procs = ProcsIdle
    /\ save = SaveIdle
    /\ ToolsIdle

NextEst == EstCall

SpecEst == InitEst /\ [][NextEst]_vars

---------------------------------------------------------------------------
(* Properties of estimate_image_tokens (SpecEst)                           *)

\* the number of 512-pixel tiles that cover x pixels, x > 0
TilesCovering(x) ==
    CHOOSE n \in 1..x : 512 * (n - 1) < x /\ x <= 512 * n

\* the estimate the claim gives for T tiles
TileFormula(T) == IF T <= 4 THEN T * 400 ELSE 480 * T

\* the first estimate is v if the first size is w x h
Pinned(w, h, v) == (est.w1 = w /\ est.h1 = h) => est.t1 = v

\* C16: for w, h > 0 the estimate is T*400 for T = ceil(w/512)*ceil(h/512)
\* up to 4 and 480*T above; (512,512) gives 400, (1024,1024) 1600,
\* (2048,2048) 7680 and (1920,1080) 5760.
C16_EstimateByTiles ==
    est.stage = "called" =>
        /\ est.t1 = TileFormula(TilesCovering(est.w1) * TilesCovering(est.h1))
        /\ Pinned(512, 512, 400)
        /\ Pinned(1024, 1024, 1600)
        /\ Pinned(2048, 2048, 7680)
        /\ Pinned(1920, 1080, 5760)

\* C16 witness: the 1920 x 1080 estimate was computed
C16_Witness ==
    /\ est.stage = "called"
    /\ est.w1 = 1920 /\ est.h1 = 1080
    /\ est.t1 = 5760

\* C17: the estimate never decreases when neither dimension decreases.
C17_EstimateMonotone ==
    (est.stage = "called" /\ est.w1 <= est.w2 /\ est.h1 <= est.h2) =>
        est.t1 <= est.t2

\* C17 witness: a pair of sizes on the two sides of the 4-tile threshold
C17_Witness ==
    /\ est.stage = "called"
    /\ est.w1 <= est.w2 /\ est.h1 <= est.h2
    /\ est.t1 = 1600
    /\ est.t2 = 2880

---------------------------------------------------------------------------
(* SpecExec: concurrent calls of resize_image_for_tokens                   *)

\* output_path arguments: none, the source image itself, some other file
OutputPaths == {None, SourcePath, 90}

Procs == 1..NumCalls

IdleProc ==
    [pc |-> "idle", max_tokens |-> 0, output_path |-> None,
     img |-> [w |-> 0, h |-> 0, decodable |-> FALSE],
     name |-> None, dest |-> None, fault |-> "none",
     ret |-> [kind |-> "none"]]

\* cv2.imwrite on the source path replaces the source image
SourceAfter(img, ws) ==
    IF \E w \in ws : w.path = SourcePath /\ w.content # <<>>
    THEN LET w == CHOOSE x \in ws : x.path = SourcePath /\ x.content # <<>>
         IN  [img EXCEPT !.w = w.content[1], !.h = w.content[2]]
    ELSE img

\* lines 113-138: the image is read and, if it has to shrink, resized in
\* memory; a call that does not get that far ends here
ExecBegin(p, max_tokens, output_path) ==
    /\ procs[p].pc = "idle"
    /\ LET r == resize_image_for_tokens(image, SourcePath, max_tokens,
                                        output_path, "none", None)
           ends == r.kind = "raise" \/ ~r.metadata.resized
           started == [IdleProc EXCEPT !.max_tokens = max_tokens,
                                       !.output_path = output_path,
                                       !.img = image]
       IN  procs' = [procs EXCEPT ![p] =
               IF ends
               THEN [started EXCEPT
                        !.pc = IF r.kind = "raise" THEN "raised"
                               ELSE "returned",
                        !.ret = r]
               ELSE IF output_path = None
               THEN [started EXCEPT !.pc = "resized"]
               ELSE [started EXCEPT
                        !.pc = "named",
                        !.dest = Destination(output_path, None)]]
    /\ UNCHANGED <<image, max_attempts, attempt, pc, all_metadata, outcome,
                   result, files, next_tmp, calls, resized_path, calc, est,
                   save, tools>>

\* lines 141-149: NamedTemporaryFile creates an empty file under a new name
ExecName(p, fault) ==
    /\ procs[p].pc = "resized"
    /\ fault \in {"none", "tempfile"}
    /\ IF fault = "tempfile"
       THEN /\ procs' = [procs EXCEPT ![p] =
                   [procs[p] EXCEPT
                       !.pc = "raised",
                       !.fault = fault,
                       !.ret = resize_image_for_tokens(
                                   procs[p].img, SourcePath,
                                   procs[p].max_tokens,
                                   procs[p].output_path, fault,
                                   FreshName(next_tmp))]]
            /\ UNCHANGED <<files, next_tmp>>
       ELSE /\ procs' = [procs EXCEPT ![p] =
                   [procs[p] EXCEPT
                       !.pc = "named",
                       !.name = FreshName(next_tmp),
                       !.dest = Destination(procs[p].output_path,
                                            FreshName(next_tmp))]]
            /\ files' = WriteFiles(files,
                                   {[path |-> FreshName(next_tmp),
                                     content |-> <<>>]})
            /\ next_tmp' = next_tmp + 1
    /\ UNCHANGED <<image, max_attempts, attempt, pc, all_metadata, outcome,
                   result, calls, resized_path, calc, est, save,
                   tools>>

\* lines 151-164: cv2.imwrite, then the metadata and the return
ExecWrite(p, fault) ==
    /\ procs[p].pc = "named"
    /\ fault \in {"none", "imwrite", "silent"}
    /\ LET me == procs[p]
           r == resize_image_for_tokens(me.img, SourcePath, me.max_tokens,
                                        me.output_path, fault, me.name)
       IN  /\ procs' = [procs EXCEPT ![p] =
                   [me EXCEPT
                       !.pc = IF r.kind = "raise" THEN "raised"
                              ELSE "returned",
                       !.fault = fault,
                       !.ret = r]]
           /\ files' = WriteFiles(files, r.writes)
           /\ image' = SourceAfter(image, r.writes)
    /\ UNCHANGED <<max_attempts, attempt, pc, all_metadata, outcome, result,
                   next_tmp, calls, resized_path, calc, est, save,
                   tools>>

InitExec ==
    /\ image \in [w : ExecSizes, h : ExecSizes, decodable : BOOLEAN]
    /\ procs = [p \in Procs |-> IdleProc]
    /\ max_attempts = 0
    /\ attempt = 0
    /\ pc = "idle"
    /\ all_metadata = <<>>
    /\ outcome = "none"
    /\ result = [kind |-> "none"]
    /\ files = {}
    /\ next_tmp = 1
    /\ calls = <<>>
    /\ resized_path = None
    /\ calc = CalcIdle
    /\ est = EstIdle
    /\ save = SaveIdle
    /\ ToolsIdle

NextExec ==
    \/ \E p \in Procs, max_tokens \in ExecTargets, output_path \in OutputPaths :
           ExecBegin(p, max_tokens, output_path)
    \/ \E p \in Procs, fault \in Faults : ExecName(p, fault)
    \/ \E p \in Procs, fault \in Faults : ExecWrite(p, fault)

SpecExec == InitExec /\ [][NextExec]_vars

---------------------------------------------------------------------------
(* Properties of resize_image_for_tokens (SpecExec)                        *)

\* call p takes a step
Steps(p) == procs'[p] # procs[p]

\* call p has returned, with resized = b
Returned(p, b) ==
    /\ procs[p].pc = "returned"
    /\ procs[p].ret.metadata.resized = b

\* a call that starts on a decodable image within its budget ends in that
\* step, unresized, with the input path, and the file system is as before
NoResizeStep(p) ==
    (/\ procs[p].pc = "idle"
     /\ Steps(p)
     /\ image.decodable
     /\ estimate_image_tokens(image.w, image.h) <= procs'[p].max_tokens) =>
        /\ procs'[p].pc = "returned"
        /\ procs'[p].ret.path = SourcePath
        /\ procs'[p].ret.metadata.resized = FALSE
        /\ procs'[p].ret.metadata.original_size = <<image.w, image.h>>
        /\ files' = files
        /\ next_tmp' = next_tmp
        /\ image' = image

\* C13: when the original estimate is at most max_tokens the executor
\* returns the input path with resized = false and creates or writes no
\* file: files and their contents are after the call what they were before.
C13_NoResizeWritesNothing == [][\A p \in Procs : NoResizeStep(p)]_vars

\* C13 witness: a 3840-token image came back unresized from a call with
\* max_tokens = 5000 and no file exists
C13_Witness ==
    \E p \in Procs :
        /\ Returned(p, FALSE)
        /\ procs[p].max_tokens = 5000
        /\ procs[p].ret.metadata.original_tokens_estimated = 3840
        /\ procs[p].ret.path = SourcePath
        /\ files = {}

\* a step of call p leaves every file but p's destination as it was, and a
\* name that is drawn is the path of no existing file
TouchesOnlyDestination(p) ==
    Steps(p) =>
        /\ \A f \in files \cup files' :
               f.path # procs'[p].dest => (f \in files <=> f \in files')
        /\ procs'[p].dest # SourcePath => image' = image
        /\ procs'[p].name # procs[p].name =>
               \A f \in files : f.path # procs'[p].name

\* a call that returns after storing its image leaves that image in the
\* destination
StoresResult(p) ==
    (Steps(p) /\ procs'[p].pc = "returned"
        /\ procs'[p].ret.metadata.resized) =>
        [path |-> procs'[p].dest,
         content |-> procs'[p].ret.metadata.new_size] \in files'

\* C14: a call that resizes writes one file only, its destination (the
\* output_path it was given, else one newly generated path), and returns
\* that destination with resized = true; a call that does not resize has
\* no destination and writes nothing.
C14_ResizeWritesOnlyDestination ==
    /\ [](\A p \in Procs :
              /\ Returned(p, TRUE) =>
                     /\ procs[p].ret.path = procs[p].dest
                     /\ procs[p].dest =
                            IF procs[p].output_path = None
                            THEN procs[p].name
                            ELSE procs[p].output_path
                     /\ procs[p].dest # None
              /\ Returned(p, FALSE) =>
                     /\ procs[p].dest = None
                     /\ procs[p].name = None)
    /\ [][\A p \in Procs : TouchesOnlyDestination(p) /\ StoresResult(p)]_vars

\* call p was given no output_path and has its destination
Unnamed(p) == procs[p].output_path = None /\ procs[p].dest # None

\* C20: calls without an output_path, in any interleaving and on the same
\* source image, have pairwise distinct destinations, none of them the
\* source path, and none of their steps writes the source image, the name
\* generator handing out each name once.
C20_DistinctDestinations ==
    /\ [](\A p, q \in Procs :
              (Unnamed(p) /\ Unnamed(q) /\ p # q) =>
                  /\ procs[p].dest # procs[q].dest
                  /\ procs[p].dest # SourcePath)
    /\ [][\A p \in Procs :
              (Steps(p) /\ procs'[p].output_path = None) =>
                  /\ image' = image
                  /\ \A f \in files' : f.path = SourcePath => f \in files]_vars

\* C20 witness: two interleaved calls without output_path both stored
\* their image, the one that drew the second name finishing first
C20_Witness ==
    \E p, q \in Procs :
        /\ Returned(p, TRUE) /\ procs[p].output_path = None
        /\ procs[p].name = 2
        /\ procs[q].pc = "named" /\ procs[q].output_path = None
        /\ procs[q].name = 1
        /\ [path |-> 2, content |-> procs[p].ret.metadata.new_size] \in files
        /\ [path |-> 1, content |-> <<>>] \in files

---------------------------------------------------------------------------
(* SpecSave: save_image of the HTTP layer (src/server.py), which stores    *)
(* the upload, asks get_image_info and runs resize_with_retry with its     *)
(* default max_attempts                                                    *)

\* source sizes of uploads: within budget, over budget, at the size floor
SaveSizes == {250, 1024, 4096}

\* line 167: max_attempts: int = 3
DefaultMaxAttempts == 3

\* what the request carries: a file, base64 data of an image file, an
\* OpenWebUI placeholder, text that is not base64, fewer than 100 bytes,
\* or nothing
Uploads ==
    {"file", "base64", "placeholder", "not_base64", "too_small", "none"}

\* get_image_info whose two flags use different limits
get_image_info_TwoLimits(img) ==
    IF Undecodable(img)
    THEN [kind |-> "raise", error |-> "ValueError"]
    ELSE LET tokens == estimate_image_tokens(img.w, img.h)
         IN  [kind |-> "return",
              info |-> [width |-> img.w,
                        height |-> img.h,
                        estimated_tokens |-> tokens,
                        within_budget |-> tokens <= 4000,
                        recommended_resize |-> tokens > MAX_TOKENS_TARGET]]

\* lines 247-262
get_image_info(img) ==
    IF Undecodable(img)
    THEN [kind |-> "raise", error |-> "ValueError"]
    ELSE LET tokens == estimate_image_tokens(img.w, img.h)
         IN  [kind |-> "return",
              info |-> [width |-> img.w,
                        height |-> img.h,
                        estimated_tokens |-> tokens,
                        within_budget |-> tokens <= MAX_TOKENS_TARGET,
                        recommended_resize |-> tokens > MAX_TOKENS_TARGET]]

\* server.py lines 86-120: the upload is stored, or the request is refused
StoreUpload(upload) ==
    IF upload \in {"file", "base64"}
    THEN [kind |-> "stored", filepath |-> SourcePath]
    ELSE [kind |-> "raise", error |-> "HTTPException", status_code |-> 400]

\* Caught that lets everything but the decode error through
Caught_ValueErrorOnly(error) == error = "ValueError"

\* server.py line 138: except Exception catches whatever the optimizer
\* raises
Caught(error) == TRUE

\* server.py line 141
FailedRecord(error) == [error |-> error, status |-> "failed"]

\* server.py lines 138-142: the optimizer raised
SaveAfterError(error) ==
    IF Caught(error)
    THEN [save EXCEPT !.pc = "returned",
                      !.metadata = ("optimization" :> FailedRecord(error))
                                   @@ @]
    ELSE [save EXCEPT !.pc = "propagated", !.error = error]

\* server.py lines 84-120
SaveStore ==
    /\ save.pc = "idle"
    /\ LET r == StoreUpload(save.upload)
       IN  IF r.kind = "stored"
           THEN save' = [save EXCEPT !.pc = "stored",
                                     !.filepath = r.filepath]
           ELSE save' = [save EXCEPT !.pc = "refused",
                                     !.error = r.error,
                                     !.status_code = r.status_code]
    /\ UNCHANGED <<image, max_attempts, attempt, pc, all_metadata, outcome,
                   result, files, next_tmp, calls, resized_path, calc, est,
                   procs, tools>>

\* server.py lines 123-131 and 136-142: without optimize the stored path
\* is returned; else get_image_info is asked, and resize_with_retry is
\* entered when the image is over budget
SaveInfo ==
    /\ save.pc = "stored"
    /\ IF ~save.optimize
       THEN /\ save' = [save EXCEPT !.pc = "returned"]
            /\ pc' = pc
       ELSE LET r == get_image_info(image)
            IN  IF r.kind = "raise"
                THEN /\ save' = SaveAfterError(r.error)
                     /\ pc' = pc
                ELSE IF ~r.info.within_budget
                THEN /\ save' = [save EXCEPT
                                    !.pc = "retrying",
                                    !.metadata = [original_info |-> r.info]]
                     /\ pc' = "loop"
                ELSE /\ save' = [save EXCEPT
                                    !.pc = "returned",
                                    !.metadata =
                                        [original_info |-> r.info,
                                         optimization |->
                                             [status |-> "no_resize_needed"]]]
                     /\ pc' = pc
    /\ UNCHANGED <<image, max_attempts, attempt, all_metadata, outcome,
                   result, files, next_tmp, calls, resized_path, calc, est,
                   procs, tools>>

\* server.py lines 131-133 and 138-142: resize_with_retry has returned or
\* raised
SaveFinish ==
    /\ save.pc = "retrying"
    /\ pc = "done"
    /\ IF outcome = "returned"
       THEN save' = [save EXCEPT
                        !.pc = "returned",
                        !.filepath = result.path,
                        !.metadata = ("optimization" :> result.metadata)
                                     @@ @]
       ELSE save' = SaveAfterError(result.error)
    /\ UNCHANGED <<image, max_attempts, attempt, pc, all_metadata, outcome,
                   result, files, next_tmp, calls, resized_path, calc, est,
                   procs, tools>>

InitSave ==
    /\ image \in [w : SaveSizes, h : SaveSizes, decodable : BOOLEAN]
    /\ max_attempts = DefaultMaxAttempts
    /\ attempt = 0
    /\ pc = "idle"
    /\ all_metadata = <<>>
    /\ outcome = "none"
    /\ result = [kind |-> "none"]
    /\ files = {}
    /\ next_tmp = 1
    /\ calls = <<>>
    /\ resized_path = None
    /\ calc = CalcIdle
    /\ est = EstIdle
    /\ procs = ProcsIdle
    /\ ToolsIdle
    /\ \E upload \in Uploads, optimize \in BOOLEAN :
           save = [pc |-> "idle", upload |-> upload, optimize |-> optimize,
                   filepath |-> None, metadata |-> <<>>, error |-> "",
                   status_code |-> 0]

\* Line 244 is not among the steps: with max_attempts = 3 the loop of an
\* over-budget image always leaves through a return or a raise
\* (LoopLeavesEarly).
NextSave ==
    \/ SaveStore
    \/ SaveInfo
    \/ \E fault \in Faults : Attempt(fault)
    \/ SaveFinish

SpecSave == InitSave /\ [][NextSave]_vars

\* FallThrough is never enabled in SpecSave
LoopLeavesEarly == pc = "loop" => attempt < max_attempts

---------------------------------------------------------------------------
(* Properties of save_image (SpecSave)                                     *)

\* save_image has returned from a request with optimize = true
SaveReturned == save.pc = "returned" /\ save.optimize

\* get_image_info or resize_with_retry raised
OptimizerRaised == ~image.decodable \/ outcome = "raised"

\* the error the optimizer raised
OptimizerError == IF ~image.decodable THEN "ValueError" ELSE result.error

\* C18: save_image with optimize = true never propagates an optimizer
\* failure: if get_image_info or resize_with_retry raises it returns the
\* unoptimized path with optimization = {error, status "failed"};
\* otherwise optimization is {status "no_resize_needed"} exactly when the
\* image is within budget (path unchanged) and the retry metadata, with
\* the path replaced by the optimized path, exactly when it is not.
C18_OptimizerFailureContained ==
    /\ save.pc # "propagated"
    /\ SaveReturned =>
           /\ "optimization" \in DOMAIN save.metadata
           /\ LET optimization == save.metadata.optimization
              IN  IF OptimizerRaised
                  THEN /\ optimization = [error |-> OptimizerError,
                                          status |-> "failed"]
                       /\ save.filepath = SourcePath
                  ELSE IF ImageTokens <= MAX_TOKENS_TARGET
                  THEN /\ optimization = [status |-> "no_resize_needed"]
                       /\ save.filepath = SourcePath
                       /\ calls = <<>>
                  ELSE /\ outcome = "returned"
                       /\ optimization = result.metadata
                       /\ "retry_history" \in DOMAIN optimization
                       /\ save.filepath = result.path
                       /\ save.filepath # SourcePath

\* C18 witness: all three attempts of resize_with_retry raised while
\* storing, and save_image returned the stored upload marked failed
C18_Witness ==
    /\ SaveReturned
    /\ image.decodable
    /\ outcome = "raised"
    /\ Len(calls) = 3
    /\ save.metadata.optimization.status = "failed"
    /\ save.filepath = SourcePath

\* get_image_info has answered for the stored image
InfoKnown == "original_info" \in DOMAIN save.metadata

\* the first entry of the history is the record of a resize
FirstIsResized ==
    /\ all_metadata[1].attempt = 1
    /\ {"original_size", "new_size", "token_reduction", "scale_factor"}
           \subseteq DOMAIN all_metadata[1]
    /\ all_metadata[1].resized

---------------------------------------------------------------------------
(* Further properties of resize_with_retry (Spec)                          *)

\* C23: every executor call that returns without raising satisfies the
\* success condition (resized = false is returned only when the original
\* estimate is at most the target), so attempt k+1 is made only if attempt
\* k raised; the targets 2800 and 2000 are never used on an image whose
\* attempt at 3500 completed.
C23_NextAttemptOnlyAfterRaise ==
    \A i \in 1..Len(calls) :
        /\ calls[i].kind = "return" =>
               /\ CallSucceeded(i)
               /\ ~calls[i].resized => calls[i].tokens <= calls[i].target
               /\ i = Len(calls)
        /\ i < Len(calls) => calls[i].kind = "raise"
        /\ calls[i].target \in {2800, 2000} =>
               /\ calls[1].target = 3500
               /\ calls[1].kind = "raise"

\* C23 witness: the attempt at 3500 raised, the attempt at 2800 resized an
\* image that was not shrunk into its target, and the call returned
C23_Witness ==
    /\ Len(calls) = 2
    /\ calls[1].kind = "raise"
    /\ calls[2].kind = "return" /\ calls[2].target = 2800
    /\ calls[2].resized
    /\ outcome = "returned"
    /\ result.metadata.new_tokens_estimated > 2800

\* C25: for every resize performed by resize_image_for_tokens (positive
\* dimensions, max_tokens >= 0) new_tokens_estimated is at most
\* original_tokens_estimated and the reported token_reduction is not
\* negative, also when the floor branch enlarges a dimension.
C25_ResizeNeverAddsTokens ==
    (outcome = "returned" /\ result.metadata.resized) =>
        /\ result.metadata.new_tokens_estimated
               <= result.metadata.original_tokens_estimated
        /\ result.metadata.new_tokens_estimated
               = estimate_image_tokens(result.metadata.new_size[1],
                                       result.metadata.new_size[2])
        /\ result.metadata.original_tokens_estimated = ImageTokens
        /\ result.metadata.token_reduction >= 0

\* C25 witness: the floor branch enlarged the width of a 100x4096 image
\* to 224 and the estimate went from 3840 down to 400
C25_Witness ==
    /\ outcome = "returned"
    /\ result.metadata.resized
    /\ image.w = 100 /\ image.h = 4096
    /\ result.metadata.new_size = <<224, 224>>
    /\ result.metadata.original_tokens_estimated = 3840
    /\ result.metadata.new_tokens_estimated = 400

\* the call has ended through line 244
FellThrough ==
    /\ pc = "done"
    /\ \/ outcome = "raised" /\ result.error = "UnboundLocalError"
       \/ outcome = "returned" /\ "attempt" \notin DOMAIN result.metadata

\* resize_with_retry runs to its end: the loop is sequential and every
\* executor call comes back
SpecTerm == Spec /\ WF_vars(Next)

\* C27: resize_with_retry terminates after invoking the executor at most
\* max_attempts times; for max_attempts >= 1 the return after the loop is
\* not reached (the call returns from a successful attempt or re-raises on
\* the last attempt), and for max_attempts <= 0 no executor call is made
\* and the call fails instead of returning an image path.
C27_TerminatesWithinMaxAttempts ==
    /\ <>(pc = "done")
    /\ [](Len(calls) <= Max(max_attempts, 0))
    /\ [](max_attempts >= 1 => ~FellThrough)
    /\ [][~(max_attempts >= 1 /\ FallThrough)]_vars
    /\ []((pc = "done" /\ max_attempts <= 0) =>
              /\ calls = <<>>
              /\ outcome = "raised"
              /\ files = {})

\* C27 witness: with max_attempts = 0 the call ended without an executor
\* call, failing on the unbound resized_path of line 244
C27_Witness ==
    /\ pc = "done"
    /\ max_attempts = 0
    /\ calls = <<>>
    /\ outcome = "raised"
    /\ result.error = "UnboundLocalError"

---------------------------------------------------------------------------
(* Further properties of calculate_target_dimensions (SpecCalc)            *)

C26_ShrinksUnlessFloor ==
    CalcOverBudget =>
        /\ ~CalcFloor => /\ calc.first.size[1] < calc.w
                         /\ calc.first.size[2] < calc.h
        /\ (calc.first.size[1] > calc.w \/ calc.first.size[2] > calc.h) =>
               /\ CalcFloor
               /\ calc.first.size = <<224, 224>>
               /\ calc.w < 224 \/ calc.h < 224

\* C26 witness: the floor branch enlarged the 16-pixel side of an
\* over-budget 16x4096 image to 224
C26_Witness ==
    /\ CalcOverBudget
    /\ CalcFloor
    /\ calc.w = 16 /\ calc.h = 4096
    /\ calc.first.size[1] = 224

---------------------------------------------------------------------------
(* SpecOcr: tools/ocr.py, its endpoint /extract_text in server.py and the  *)
(* chat tool's Tools.extract_text in openwebui_vision_tool.py. A string is *)
(* a sequence of characters, a text the sequence of its words.             *)

En == <<"e", "n">>

Es == <<"e", "s">>

\* the languages arguments of the calls
LangLists == {<<En>>, <<Es>>, <<En, Es>>}

\* the languages parameter of the chat tool and of the request
LangStrings == {En, Es, <<"e", "n", ",", "e", "s">>}

\* tools/ocr.py lines 14 and 24: languages=['en']
DefaultLanguages == <<En>>

\* what is written in the images: words and the language of each
ImageTexts ==
    {<<>>,
     <<[text |-> "hello", lang |-> En]>>,
     <<[text |-> "hola", lang |-> Es], [text |-> "mundo", lang |-> Es]>>,
     <<[text |-> "hello", lang |-> En], [text |-> "mundo", lang |-> Es]>>}

OcrImages == [decodable : BOOLEAN, words : ImageTexts]

\* what can go wrong in a call: nothing, easyocr.Reader raises, the
\* request does not reach the server
OcrFaults == {"none", "reader", "network"}

Range(f) == {f[i] : i \in DOMAIN f}

\* dict.get(key, default)
Get(dict, key, default) ==
    IF key \in DOMAIN dict THEN dict[key] ELSE default

\* str.split(','), server.py line 270
RECURSIVE Split(_)
Split(chars) ==
    IF \A i \in DOMAIN chars : chars[i] # ","
    THEN <<chars>>
    ELSE LET k == CHOOSE i \in DOMAIN chars :
                      /\ chars[i] = ","
                      /\ \A j \in 1..(i - 1) : chars[j] # ","
         IN  <<SubSeq(chars, 1, k - 1)>>
             \o Split(SubSeq(chars, k + 1, Len(chars)))

\* tools/ocr.py lines 14-21: initialize
ocr_initialize(state, languages, fault) ==
    IF state._reader = NoReader
    THEN IF fault = "reader"
         THEN [kind |-> "raise", error |-> "RuntimeError", state |-> state]
         ELSE [kind |-> "ok", state |-> [state EXCEPT !._reader = languages]]
    ELSE [kind |-> "ok", state |-> state]

\* tools/ocr.py line 44: _reader.readtext finds the words written in a
\* language the reader was built for
readtext(reader, img) ==
    SelectSeq(img.words, LAMBDA word : word.lang \in Range(reader))

\* tools/ocr.py lines 48 and 69: the words joined by ' '
JoinWords(results) == [i \in DOMAIN results |-> results[i].text]

\* tools/ocr.py lines 24-75: extract_text; reader is the reader that read
\* the image, NoReader when none did
ocr_extract_text(state, img, languages, detail, fault) ==
    LET init == ocr_initialize(state, languages, fault)
    IN  IF init.kind = "raise"
        THEN [kind |-> "raise", error |-> init.error, state |-> init.state,
              reader |-> NoReader]
        ELSE IF ~img.decodable
        THEN [kind |-> "raise", error |-> "ValueError", state |-> init.state,
              reader |-> NoReader]
        ELSE LET results == readtext(init.state._reader, img)
                 summary == [text |-> JoinWords(results),
                             words_found |-> Len(results)]
             IN  [kind |-> "return",
                  state |-> init.state,
                  reader |-> init.state._reader,
                  value |-> IF detail
                            THEN [details |-> results] @@ summary
                            ELSE summary]

\* tools/ocr.py lines 78-91: get_status
ocr_get_status(state, fault) ==
    LET init == ocr_initialize(state, DefaultLanguages, fault)
    IN  [state |-> init.state,
         value |-> IF init.kind = "ok"
                   THEN [available |-> TRUE, engine |-> "EasyOCR"]
                   ELSE [available |-> FALSE, error |-> init.error]]

\* server.py lines 250-287: the endpoint; an exception of save_image or of
\* ocr.extract_text becomes the 500 response
extract_text_endpoint(state, request, img, fault) ==
    LET stored == StoreUpload(request.image_base64)
        lang_list == Split(request.languages)
        results == ocr_extract_text(state, img, lang_list, request.detail,
                                    fault)
    IN  IF stored.kind = "raise"
        THEN [status_code |-> 500, state |-> state, reader |-> NoReader,
              content |-> [success |-> FALSE, error |-> stored.error]]
        ELSE IF results.kind = "raise"
        THEN [status_code |-> 500, state |-> results.state,
              reader |-> NoReader,
              content |-> [success |-> FALSE, error |-> results.error]]
        ELSE [status_code |-> 200, state |-> results.state,
              reader |-> results.reader,
              content |-> [success |-> TRUE,
                           annotated_image |->
                               IF results.value.details # <<>>
                               THEN "image" ELSE "None",
                           image_metadata |-> "metadata"]
                          @@ results.value]

\* openwebui_vision_tool.py lines 66-88: _call_vision_api
call_vision_api(response, fault) ==
    IF fault = "network" \/ response.status_code >= 400
    THEN [success |-> FALSE, error |-> "Vision API error"]
    ELSE response.content

\* openwebui_vision_tool.py lines 222-237: the answer made of the result;
\* "no_text" stands for 'No text detected in the image.'
FormatText(api_result) ==
    LET full_text == Get(api_result, "full_text", <<>>)
        details == Get(api_result, "details", <<>>)
    IN  IF ~Get(api_result, "success", FALSE)
        THEN [kind |-> "error", error |-> Get(api_result, "error", "Unknown error")]
        ELSE IF full_text = <<>>
        THEN [kind |-> "no_text"]
        ELSE [kind |-> "text", full_text |-> full_text,
              regions |-> Len(details)]

\* a call of ocr.extract_text
OcrExtractText(img, languages, detail, fault) ==
    /\ fault # "network"
    /\ LET r == ocr_extract_text(ocr, img, languages, detail, fault)
       IN  /\ ocr' = r.state
           /\ reply' = [op |-> "ocr.extract_text",
                        languages |-> languages,
                        reader |-> r.reader,
                        kind |-> r.kind,
                        value |-> IF r.kind = "return" THEN r.value
                                  ELSE [error |-> r.error]]
    /\ UNCHANGED <<image, max_attempts, attempt, pc, all_metadata, outcome,
                   result, files, next_tmp, calls, resized_path, calc, est,
                   procs, save, coral, faces>>

\* a call of ocr.get_status
OcrGetStatus(fault) ==
    /\ fault # "network"
    /\ LET r == ocr_get_status(ocr, fault)
       IN  /\ ocr' = r.state
           /\ reply' = [op |-> "ocr.get_status", kind |-> "return",
                        value |-> r.value]
    /\ UNCHANGED <<image, max_attempts, attempt, pc, all_metadata, outcome,
                   result, files, next_tmp, calls, resized_path, calc, est,
                   procs, save, coral, faces>>

\* openwebui_vision_tool.py lines 192-237: Tools.extract_text on an
\* uploaded file, through /extract_text
ChatExtractText(img, upload, languages, fault) ==
    /\ LET request == [image_base64 |-> upload, languages |-> languages,
                       detail |-> TRUE]
           response == extract_text_endpoint(ocr, request, img, fault)
           api_result == call_vision_api(response, fault)
       IN  /\ ocr' = IF fault = "network" THEN ocr ELSE response.state
           /\ reply' = [op |-> "Tools.extract_text",
                        languages |-> Split(languages),
                        reader |-> IF fault = "network" THEN NoReader
                                   ELSE response.reader,
                        kind |-> "return",
                        result |-> api_result,
                        value |-> FormatText(api_result)]
    /\ UNCHANGED <<image, max_attempts, attempt, pc, all_metadata, outcome,
                   result, files, next_tmp, calls, resized_path, calc, est,
                   procs, save, coral, faces>>

\* the process starts with every tool module unloaded
InitTools ==
    /\ image = [w |-> 512, h |-> 512, decodable |-> TRUE]
    /\ max_attempts = 0
    /\ attempt = 0
    /\ pc = "idle"
    /\ all_metadata = <<>>
    /\ outcome = "none"
    /\ result = [kind |-> "none"]
    /\ files = {}
    /\ next_tmp = 1
    /\ calls = <<>>
    /\ resized_path = None
    /\ calc = CalcIdle
    /\ OthersIdle

NextOcr ==
    \/ \E img \in OcrImages, languages \in LangLists, detail \in BOOLEAN, fault \in OcrFaults :
           OcrExtractText(img, languages, detail, fault)
    \/ \E fault \in OcrFaults : OcrGetStatus(fault)
    \/ \E img \in OcrImages, upload \in {"base64", "too_small"}, languages \in LangStrings, fault \in OcrFaults :
           ChatExtractText(img, upload, languages, fault)

SpecOcr == InitTools /\ [][NextOcr]_vars

---------------------------------------------------------------------------
(* Properties of OCR (SpecOcr)                                             *)

\* C21 as stated: every call of ocr.extract_text with languages L performs
\* OCR with a reader built for L, in every sequence of calls of one
\* process, also after an earlier call or get_status built the reader for
\* other languages.
C21_ReaderMatchesLanguages ==
    (reply.op \in {"ocr.extract_text", "Tools.extract_text"}
        /\ reply.reader # NoReader) =>
        reply.reader = reply.languages

\* C22 as stated: when the response of /extract_text is successful and
\* holds recognized text, Tools.extract_text returns that text; it answers
\* 'No text detected in the image.' only when the server found no text.
C22_ChatReturnsRecognizedText ==
    (reply.op = "Tools.extract_text" /\ Get(reply.result, "success", FALSE)) =>
        IF reply.result.text # <<>>
        THEN /\ reply.value.kind = "text"
             /\ reply.value.full_text = reply.result.text
        ELSE reply.value.kind = "no_text"

---------------------------------------------------------------------------
(* SpecCoral: tools/object_detection.py and tools/classification.py, the   *)
(* two modules that load a model on the Coral accelerator                  *)

\* what can go wrong in initialize: nothing, make_interpreter raises,
\* allocate_tensors raises, load_labels raises
CoralFaults == {"none", "make", "allocate", "labels"}

\* class ids the detector reports; coco_labels.txt has no line for 11
ObjectIds == {0, 1, 2, 11}

\* object_detection.py lines 21-38: the dictionary load_labels returns
CocoLabels == (0 :> "person") @@ (1 :> "bicycle") @@ (2 :> "car")

\* what the detector finds in an image: class ids
ObjectResults == {<<>>, <<0>>, <<0, 0, 1>>, <<11>>, <<0, 1, 2, 11>>}

\* what get_classes returns: the top_k best classes, for top_k 0, 1 and 3
ClassResults == {<<>>, <<"tabby">>, <<"tabby", "tiger cat", "lynx">>}

\* object_detection.py lines 41-53, classification.py lines 27-39:
\* initialize on the module's globals
coral_initialize(state, fault) ==
    LET made == [state EXCEPT !._interpreter = "made", !.made = @ + 1]
        allocated == [made EXCEPT !._interpreter = "allocated"]
        loaded == IF state._interpreter = "None" THEN allocated ELSE state
    IN  IF state._interpreter = "None" /\ fault = "make"
        THEN [kind |-> "raise", error |-> "ValueError", state |-> state]
        ELSE IF state._interpreter = "None" /\ fault = "allocate"
        THEN [kind |-> "raise", error |-> "RuntimeError", state |-> made]
        ELSE IF loaded._labels = "None" /\ fault = "labels"
        THEN [kind |-> "raise", error |-> "FileNotFoundError",
              state |-> loaded]
        ELSE [kind |-> "ok", state |-> [loaded EXCEPT !._labels = "loaded"]]

\* object_detection.py line 92: _labels.get(obj.id, obj.id), a string or
\* the id itself
ObjectLabel(id) ==
    IF id \in DOMAIN CocoLabels THEN [str |-> CocoLabels[id]]
    ELSE [int |-> id]

\* object_detection.py lines 56-103: detect_objects; an interpreter whose
\* tensors are not allocated fails at set_input / invoke
detect_objects(state, img, found, fault) ==
    LET init == coral_initialize(state, fault)
    IN  IF init.kind = "raise"
        THEN init
        ELSE IF ~img.decodable
        THEN [kind |-> "raise", error |-> "ValueError", state |-> init.state]
        ELSE IF init.state._interpreter # "allocated"
        THEN [kind |-> "raise", error |-> "RuntimeError",
              state |-> init.state]
        ELSE [kind |-> "return", state |-> init.state,
              value |-> [i \in DOMAIN found |->
                            [label |-> ObjectLabel(found[i])]]]

\* classification.py lines 42-83: classify_image
classify_image(state, img, found, fault) ==
    LET init == coral_initialize(state, fault)
    IN  IF init.kind = "raise"
        THEN init
        ELSE IF ~img.decodable
        THEN [kind |-> "raise", error |-> "ValueError", state |-> init.state]
        ELSE IF init.state._interpreter # "allocated"
        THEN [kind |-> "raise", error |-> "RuntimeError",
              state |-> init.state]
        ELSE [kind |-> "return", state |-> init.state,
              value |-> [i \in DOMAIN found |->
                            [label |-> [str |-> found[i]]]]]

\* object_detection.py lines 106-120, classification.py lines 86-100
coral_get_status(state, fault) ==
    LET init == coral_initialize(state, fault)
    IN  [state |-> init.state,
         value |-> IF init.kind = "ok"
                   THEN [available |-> TRUE,
                         labels_loaded |-> init.state._labels = "loaded"]
                   ELSE [available |-> FALSE, error |-> init.error]]

\* a call of initialize of module m
CoralInitialize(m, fault) ==
    /\ LET r == coral_initialize(coral[m], fault)
       IN  /\ coral' = [coral EXCEPT ![m] = r.state]
           /\ reply' = [op |-> "initialize", module |-> m,
                        kind |-> IF r.kind = "ok" THEN "return" ELSE "raise"]
    /\ UNCHANGED <<image, max_attempts, attempt, pc, all_metadata, outcome,
                   result, files, next_tmp, calls, resized_path, calc, est,
                   procs, save, ocr, faces>>

\* a call of get_status of module m
CoralGetStatus(m, fault) ==
    /\ LET r == coral_get_status(coral[m], fault)
       IN  /\ coral' = [coral EXCEPT ![m] = r.state]
           /\ reply' = [op |-> "get_status", module |-> m,
                        kind |-> "return", value |-> r.value]
    /\ UNCHANGED <<image, max_attempts, attempt, pc, all_metadata, outcome,
                   result, files, next_tmp, calls, resized_path, calc, est,
                   procs, save, ocr, faces>>

\* a call of detect_objects
CoralDetectObjects(img, found, fault) ==
    /\ LET r == detect_objects(coral["object_detection"], img, found, fault)
       IN  /\ coral' = [coral EXCEPT !["object_detection"] = r.state]
           /\ reply' = [op |-> "detect_objects",
                        module |-> "object_detection",
                        kind |-> r.kind,
                        value |-> IF r.kind = "return" THEN r.value
                                  ELSE <<>>]
    /\ UNCHANGED <<image, max_attempts, attempt, pc, all_metadata, outcome,
                   result, files, next_tmp, calls, resized_path, calc, est,
                   procs, save, ocr, faces>>

\* a call of classify_image
CoralClassifyImage(img, found, fault) ==
    /\ LET r == classify_image(coral["classification"], img, found, fault)
       IN  /\ coral' = [coral EXCEPT !["classification"] = r.state]
           /\ reply' = [op |-> "classify_image",
                        module |-> "classification",
                        kind |-> r.kind,
                        value |-> IF r.kind = "return" THEN r.value
                                  ELSE <<>>]
    /\ UNCHANGED <<image, max_attempts, attempt, pc, all_metadata, outcome,
                   result, files, next_tmp, calls, resized_path, calc, est,
                   procs, save, ocr, faces>>

NextCoral ==
    \/ \E m \in CoralModules, fault \in CoralFaults : CoralInitialize(m, fault)
    \/ \E m \in CoralModules, fault \in CoralFaults : CoralGetStatus(m, fault)
    \/ \E decodable \in BOOLEAN, found \in ObjectResults, fault \in CoralFaults :
           CoralDetectObjects([decodable |-> decodable], found, fault)
    \/ \E decodable \in BOOLEAN, found \in ClassResults, fault \in CoralFaults :
           CoralClassifyImage([decodable |-> decodable], found, fault)

SpecCoral == InitTools /\ [][NextCoral]_vars

---------------------------------------------------------------------------
(* Properties of the Coral modules (SpecCoral)                             *)

\* initialize of the module of the last call returned normally
InitializeReturned ==
    \/ reply.op = "initialize" /\ reply.kind = "return"
    \/ reply.op = "get_status" /\ reply.value.available
    \/ reply.op \in {"detect_objects", "classify_image"}
           /\ reply.kind = "return"

\* C28 as stated: in any sequence of calls of initialize, detect_objects
\* and get_status of one process, whenever initialize returns normally the
\* interpreter is loaded with its tensors allocated and the labels are
\* loaded, and make_interpreter succeeds at most once, also when an
\* earlier call failed part-way.
C28_InitializedMeansLoaded ==
    /\ \A m \in CoralModules : coral[m].made <= 1
    /\ InitializeReturned =>
           /\ coral[reply.module]._interpreter = "allocated"
           /\ coral[reply.module]._labels = "loaded"

---------------------------------------------------------------------------
(* SpecFaces: tools/face_detection.py                                      *)

\* what can go wrong in initialize: nothing, Core() raises, the model file
\* is missing, compiling for MYRIAD raises, compiling raises for MYRIAD
\* and for CPU
FaceFaults == {"none", "core", "missing", "myriad", "compile"}

\* confidences (in percent) of the detections the model reports
Confidences == {30, 50, 70, 90}

\* what the model reports for an image: up to three detections
FaceResults ==
    {<<>>} \cup {<<a>> : a \in Confidences}
           \cup {<<a, b>> : a \in Confidences, b \in Confidences}
           \cup {<<a, b, c>> : a \in Confidences, b \in Confidences, c \in Confidences}

\* threshold arguments, in percent
Thresholds == {30, 50}

\* face_detection.py lines 18-56: initialize
faces_initialize(state, fault) ==
    LET core == [state EXCEPT !._ie = "Core"]
        Compiled(device) == [core EXCEPT !._compiled_model = device,
                                         !._input_layer = "input(0)",
                                         !._output_layer = "output(0)"]
    IN  IF state._compiled_model # "None"
        THEN [kind |-> "ok", state |-> state]
        ELSE IF fault = "core"
        THEN [kind |-> "raise", error |-> "RuntimeError", state |-> state]
        ELSE IF fault = "missing"  \* lines 40 and 50-53: model is None
        THEN [kind |-> "ok", state |-> core]
        ELSE IF fault = "myriad"   \* lines 50-56: falls back to the CPU
        THEN [kind |-> "ok", state |-> Compiled("CPU")]
        ELSE IF fault = "compile"  \* line 54 raises inside the handler
        THEN [kind |-> "raise", error |-> "RuntimeError", state |-> core]
        ELSE [kind |-> "ok", state |-> Compiled("MYRIAD")]

\* face_detection.py lines 97-113: the detections above the threshold
FacesAbove(found, threshold) ==
    LET kept == SelectSeq(found, LAMBDA confidence : confidence > threshold)
    IN  [i \in DOMAIN kept |-> [confidence |-> kept[i]]]

\* face_detection.py lines 59-115: detect_faces; the value is a dict (the
\* error record) or a list (the faces)
detect_faces(state, img, found, threshold, fault) ==
    LET init == faces_initialize(state, fault)
    IN  IF init.kind = "raise"
        THEN [kind |-> "return", state |-> init.state,
              value |-> [type |-> "dict",
                         dict |-> [error |-> init.error,
                                   instructions |-> "omz_downloader"]]]
        ELSE IF ~img.decodable
        THEN [kind |-> "raise", error |-> "ValueError", state |-> init.state]
        ELSE IF init.state._input_layer = "None"  \* line 84: None.shape
        THEN [kind |-> "raise", error |-> "AttributeError",
              state |-> init.state]
        ELSE [kind |-> "return", state |-> init.state,
              value |-> [type |-> "list",
                         list |-> FacesAbove(found, threshold)]]

\* face_detection.py lines 118-133: get_status
faces_get_status(state, fault) ==
    LET init == faces_initialize(state, fault)
    IN  [state |-> init.state,
         value |-> IF init.kind = "ok"
                   THEN [available |-> TRUE, device |-> "Intel NCS2 (MYRIAD)"]
                   ELSE [available |-> FALSE, error |-> init.error,
                         instructions |-> "omz_downloader"]]

\* a call of face_detection.get_status
FacesGetStatus(fault) ==
    /\ LET r == faces_get_status(faces, fault)
       IN  /\ faces' = r.state
           /\ reply' = [op |-> "faces.get_status", kind |-> "return",
                        value |-> r.value]
    /\ UNCHANGED <<image, max_attempts, attempt, pc, all_metadata, outcome,
                   result, files, next_tmp, calls, resized_path, calc, est,
                   procs, save, ocr, coral>>

\* a call of detect_faces
FacesDetect(img, found, threshold, fault) ==
    /\ LET r == detect_faces(faces, img, found, threshold, fault)
       IN  /\ faces' = r.state
           /\ reply' = [op |-> "detect_faces", kind |-> r.kind,
                        threshold |-> threshold,
                        value |-> IF r.kind = "return" THEN r.value
                                  ELSE [type |-> "error", error |-> r.error]]
    /\ UNCHANGED <<image, max_attempts, attempt, pc, all_metadata, outcome,
                   result, files, next_tmp, calls, resized_path, calc, est,
                   procs, save, ocr, coral>>

NextFaces ==
    \/ \E fault \in FaceFaults : FacesGetStatus(fault)
    \/ \E decodable \in BOOLEAN, found \in FaceResults, threshold \in Thresholds, fault \in FaceFaults :
           FacesDetect([decodable |-> decodable], found, threshold, fault)

SpecFaces == InitTools /\ [][NextFaces]_vars

---------------------------------------------------------------------------
(* Properties of face detection (SpecFaces)                                *)

\* a compiled model with its input and output layers is loaded
FaceModelLoaded ==
    /\ faces._compiled_model # "None"
    /\ faces._input_layer # "None"
    /\ faces._output_layer # "None"

\* C29 as stated: get_status returns available = true only in states
\* where a compiled model is loaded (_compiled_model, _input_layer and
\* _output_layer are set), and detect_faces returns the {error,
\* instructions} record rather than failing when the model could not be
\* loaded (e.g. model file missing).
C29_AvailableMeansLoaded ==
    /\ (reply.op = "faces.get_status" /\ reply.value.available) =>
           FaceModelLoaded
    /\ (reply.op = "detect_faces" /\ ~FaceModelLoaded) =>
           /\ reply.kind = "return"
           /\ reply.value.type = "dict"
           /\ DOMAIN reply.value.dict = {"error", "instructions"}

---------------------------------------------------------------------------
(* SpecScene: tools/scene_analysis.py                                      *)

\* scene_analysis.py line 32: detect_objects(image_path, threshold=0.3)
SceneObjects == ObjectResults

\* scene_analysis.py line 42: classify_image(image_path, top_k=3)
SceneClasses == {found \in ClassResults : Len(found) = 3}

\* scene_analysis.py line 61: detect_faces(image_path, threshold=0.5)
SceneFaceThreshold == 50

\* what the face model reports for the images of a scene analysis
SceneFaces == {found \in FaceResults : Len(found) <= 1}

\* the images of a scene analysis
SceneImages == {img \in OcrImages : img.decodable => Len(img.words) <= 1}

\* what can go wrong in each back end during one analysis
SceneFaults ==
    [objects : {"none", "make"}, classification : {"none", "allocate"},
     text : {"none", "reader"}, faces : {"none", "core", "missing"}]

\* a dict without keys
EmptyDict == [key \in {} |-> key]

\* ', '.join(labels): TypeError when an item is not a str
JoinLabels(labels) ==
    IF \E label \in labels : "int" \in DOMAIN label
    THEN [kind |-> "raise", error |-> "TypeError"]
    ELSE [kind |-> "parts", parts |-> <<[part |-> "I can see", labels |-> labels]>>]

\* scene_analysis.py lines 81-84: the classification part
ClassificationPart(analysis) ==
    IF "classification" \in DOMAIN analysis /\ "top_predictions" \in DOMAIN analysis.classification
    THEN IF analysis.classification.top_predictions = <<>>
         THEN {[kind |-> "raise", error |-> "IndexError"]}
         ELSE {[kind |-> "parts",
                parts |-> <<[part |-> "This appears to be",
                             label |-> analysis.classification.top_predictions[1].label]>>]}
    ELSE {[kind |-> "parts", parts |-> <<>>]}

\* scene_analysis.py lines 86-96: the objects part; list(set(obj_labels))
\* has no defined order, so any three of more than three labels may be
\* the ones joined
ObjectsPart(analysis) ==
    IF "objects" \in DOMAIN analysis /\ "detected" \in DOMAIN analysis.objects
    THEN IF analysis.objects.count > 0
         THEN LET unique_objects == {obj.label : obj \in Range(analysis.objects.detected)}
              IN  IF Cardinality(unique_objects) <= 3
                  THEN {JoinLabels(unique_objects)}
                  ELSE {JoinLabels(named) : named \in {three \in SUBSET unique_objects : Cardinality(three) = 3}}
         ELSE {[kind |-> "parts", parts |-> <<>>]}
    ELSE {[kind |-> "parts", parts |-> <<>>]}

\* scene_analysis.py lines 98-102: the faces part
FacesPart(analysis) ==
    IF "faces" \in DOMAIN analysis /\ "count" \in DOMAIN analysis.faces
    THEN IF analysis.faces.count > 0
         THEN {[kind |-> "parts",
                parts |-> <<[part |-> "faces detected", count |-> analysis.faces.count]>>]}
         ELSE {[kind |-> "parts", parts |-> <<>>]}
    ELSE {[kind |-> "parts", parts |-> <<>>]}

\* scene_analysis.py lines 104-112: the text part (no text of the model
\* is longer than 100 characters)
TextPart(analysis) ==
    IF "text" \in DOMAIN analysis /\ "text" \in DOMAIN analysis.text
    THEN IF analysis.text.text # <<>>
         THEN {[kind |-> "parts",
                parts |-> <<[part |-> "Contains text", text |-> analysis.text.text]>>]}
         ELSE {[kind |-> "parts", parts |-> <<>>]}
    ELSE {[kind |-> "parts", parts |-> <<>>]}

\* scene_analysis.py line 114: the joined parts, or the fixed sentence
SummaryOf(parts) ==
    IF parts # <<>> THEN parts ELSE <<[part |-> "Unable to analyze scene"]>>

\* scene_analysis.py lines 77-114: generate_summary; the set of its
\* possible outcomes, a summary or the first exception raised
generate_summary(analysis) ==
    {IF c.kind = "raise" THEN c
     ELSE IF o.kind = "raise" THEN o
     ELSE [kind |-> "return", summary |-> SummaryOf(c.parts \o o.parts \o f.parts \o t.parts)] :
        c \in ClassificationPart(analysis), o \in ObjectsPart(analysis),
        f \in FacesPart(analysis), t \in TextPart(analysis)}

\* scene_analysis.py lines 30-38: the objects section
ObjectsSection(r) ==
    IF r.kind = "return"
    THEN [objects |-> [count |-> Len(r.value), detected |-> r.value]]
    ELSE [objects |-> [error |-> r.error]]

\* scene_analysis.py lines 40-47: the classification section
ClassificationSection(r) ==
    IF r.kind = "return"
    THEN [classification |-> [top_predictions |-> r.value]]
    ELSE [classification |-> [error |-> r.error]]

\* scene_analysis.py lines 49-55: the text section
TextSection(include_text, r) ==
    IF ~include_text THEN EmptyDict
    ELSE IF r.kind = "return" THEN [text |-> r.value]
    ELSE [text |-> [error |-> r.error]]

\* scene_analysis.py lines 57-69: the faces section
FacesSection(include_faces, r) ==
    IF ~include_faces THEN EmptyDict
    ELSE IF r.kind = "raise" THEN [faces |-> [error |-> r.error]]
    ELSE IF r.value.type = "dict" THEN [faces |-> r.value.dict]
    ELSE [faces |-> [count |-> Len(r.value.list), detected |-> r.value.list]]

\* scene_analysis.py lines 13-74: analyze_scene up to line 69: the
\* analysis, the back ends that failed and the state of the modules
\* after the back ends ran
SceneAnalysis(img, include_text, include_faces, found, fault) ==
    LET o == detect_objects(coral["object_detection"], img, found.objects, fault.objects)
        c == classify_image(coral["classification"], img, found.classification, fault.classification)
        t == ocr_extract_text(ocr, img, DefaultLanguages, FALSE, fault.text)
        f == detect_faces(faces, img, found.faces, SceneFaceThreshold, fault.faces)
        raised == [objects |-> o.kind = "raise",
                   classification |-> c.kind = "raise",
                   text |-> include_text /\ t.kind = "raise",
                   faces |-> include_faces /\ (f.kind = "raise" \/ f.value.type = "dict")]
    IN  [analysis |-> ObjectsSection(o) @@ ClassificationSection(c)
                        @@ TextSection(include_text, t)
                        @@ FacesSection(include_faces, f),
         failed |-> {section \in DOMAIN raised : raised[section]},
         coral |-> [coral EXCEPT !["object_detection"] = o.state,
                                 !["classification"] = c.state],
         ocr |-> IF include_text THEN t.state ELSE ocr,
         faces |-> IF include_faces THEN f.state ELSE faces]

\* a call of analyze_scene (lines 13-74)
AnalyzeScene(img, include_text, include_faces, found, fault) ==
    /\ reply.op # "analyze_scene"
    /\ \E r \in {SceneAnalysis(img, include_text, include_faces, found, fault)} :
         \E s \in generate_summary(r.analysis) :
           /\ coral' = r.coral
           /\ ocr' = r.ocr
           /\ faces' = r.faces
           /\ reply' = IF s.kind = "return"
                       THEN [op |-> "analyze_scene", kind |-> "return",
                             include_text |-> include_text,
                             include_faces |-> include_faces,
                             failed |-> r.failed,
                             value |-> [analysis |-> r.analysis,
                                        summary |-> s.summary]]
                       ELSE [op |-> "analyze_scene", kind |-> "raise",
                             include_text |-> include_text,
                             include_faces |-> include_faces,
                             failed |-> r.failed,
                             value |-> [error |-> s.error]]
    /\ UNCHANGED <<image, max_attempts, attempt, pc, all_metadata, outcome,
                   result, files, next_tmp, calls, resized_path, calc, est,
                   procs, save>>

\* the modules may have been used before the analysis
NextScene ==
    \/ \E m \in CoralModules, fault \in CoralFaults :
           reply.op # "analyze_scene" /\ CoralInitialize(m, fault)
    \/ \E img \in SceneImages, include_text \in BOOLEAN, include_faces \in BOOLEAN, found \in [objects : SceneObjects, classification : SceneClasses, faces : SceneFaces], fault \in SceneFaults :
           AnalyzeScene(img, include_text, include_faces, found, fault)

SpecScene == InitTools /\ [][NextScene]_vars

---------------------------------------------------------------------------
(* Properties of scene analysis (SpecScene)                                *)

\* the section of the reply holds an error
ErrorSection(section) ==
    /\ section \in DOMAIN reply.value.analysis
    /\ "error" \in DOMAIN reply.value.analysis[section]

\* C30 as stated: analyze_scene isolates back-end failures: for any
\* combination of back ends raising or returning empty results it does not
\* raise, records {error} under the failing section while still computing
\* the other sections, omits the text / faces sections when include_text /
\* include_faces is false, and always returns a summary.
C30_IsolatesBackendFailures ==
    reply.op = "analyze_scene" =>
        /\ reply.kind = "return"
        /\ {"objects", "classification"} \subseteq DOMAIN reply.value.analysis
        /\ "text" \in DOMAIN reply.value.analysis <=> reply.include_text
        /\ "faces" \in DOMAIN reply.value.analysis <=> reply.include_faces
        /\ \A section \in DOMAIN reply.value.analysis :
               ErrorSection(section) <=> section \in reply.failed
        /\ reply.value.summary # <<>>
===========================================================================
